---- MODULE Spec2Model ----
(***************************************************************************)
(* A model of the rolling list of src/src/lib.rs: a singly linked chain of *)
(* fixed-capacity chunks with a head pointer and a cached `last` pointer.  *)
(* Chunks live in a heap indexed by allocation order; lists are handles    *)
(* (head, last) into that heap.  Elements are the tokens handed out by the *)
(* leak checker of src/src/tests.rs, so every element is distinguishable   *)
(* and its destructor calls can be counted.                                *)
(***************************************************************************)
EXTENDS Integers, Sequences, FiniteSets, Bags, TLC

\* ---------------------------------------------------------------- bounds
MaxCap    == 2   \* largest CHUNK_CAPACITY explored
MaxLists  == 2   \* number of list handles in scope at once
MaxElems  == 2   \* number of elements ever allocated
MaxExtend == 2   \* longest iterable handed to extend / from_iter
MaxFurther == 2  \* longest sequence of further calls compared
MaxIters  == 2   \* number of iter() traversals alive at once

None   == 0      \* Option::None of a NullablePtr
Uninit == 0      \* a MaybeUninit slot that was never written

ListIds == 1 .. MaxLists

VARIABLES
    CHUNK_CAPACITY,    \* the const generic parameter shared by all lists
    debug_assertions,  \* cfg!(debug_assertions) of the build
    chunks,            \* heap: sequence of [next, len, buffer], by allocation order
    released,          \* per chunk: how many times its Box was released
    head, last,        \* per list: the two fields of List
    status,            \* per handle: "vacant", "alive" or "dropping"
    drop,              \* the teardown in progress: [active, list, cursor, unwinding]
    next_free,         \* LeakChecker::next_free: elements allocated so far
    drops,             \* per element: how many times its destructor ran
    hist,              \* history: per list, the elements inserted, in order
    inserted,          \* history: per list, how many elements were pushed or spliced in
    spliced,           \* history: per list, whether append was ever called on it
    joints,            \* history: chunks that were a non-full receiver tail at an append
    op,                \* history: the last call of new, push, append, iter or drop
    exiting,           \* the scope owning the lists is being left
    panicking,         \* thread::panicking(): the scope is left by unwinding
    aborted,           \* the process was ended (abort)
    iters              \* the list borrowed by iter() and the bag of its live
                       \* traversals: closure state (chunk, idx), elements yielded

vars == << CHUNK_CAPACITY, debug_assertions, chunks, released, head, last,
           status, drop, next_free, drops, hist, inserted, spliced, joints,
           op, exiting, panicking, aborted, iters >>

\* ------------------------------------------------------------ the chunk
\* Chunk::new: one live element in slot 0, every other slot uninitialized.
ChunkNew(first_elem) ==
    [ next   |-> None,
      len    |-> 1,
      buffer |-> [i \in 0 .. CHUNK_CAPACITY - 1 |->
                     IF i = 0 THEN first_elem ELSE Uninit] ]

\* ----------------------------------------------------------------- push
\* The pointer-level state push works on: S = [chunks, head, last].
Store == [chunks |-> chunks, head |-> head, last |-> last]

\* The branch of push that needs a new chunk (tail full, or no tail).
NeedsChunk(S, l) ==
    IF S.last[l] = None THEN TRUE
    ELSE S.chunks[S.last[l]].len >= CHUNK_CAPACITY

\* push that forgets last.next.set(ptr) when it starts a new chunk.
push_unlinked(S, l, elem) ==
    IF S.last[l] # None
    THEN LET p   == S.last[l]
             len == S.chunks[p].len
         IN  IF len < CHUNK_CAPACITY
             THEN [S EXCEPT !.chunks[p].buffer[len] = elem,
                            !.chunks[p].len = len + 1]
             ELSE LET ptr == Len(S.chunks) + 1
                  IN  [S EXCEPT !.chunks = Append(S.chunks, ChunkNew(elem)),
                                !.last[l] = ptr]
    ELSE LET ptr == Len(S.chunks) + 1
         IN  [S EXCEPT !.chunks = Append(S.chunks, ChunkNew(elem)),
                       !.last[l] = ptr,
                       !.head[l] = ptr]

\* push that starts a new chunk one element early (len + 1 < CHUNK_CAPACITY).
push_early(S, l, elem) ==
    IF S.last[l] # None
    THEN LET p   == S.last[l]
             len == S.chunks[p].len
         IN  IF len + 1 < CHUNK_CAPACITY
             THEN [S EXCEPT !.chunks[p].buffer[len] = elem,
                            !.chunks[p].len = len + 1]
             ELSE LET ptr == Len(S.chunks) + 1
                  IN  [S EXCEPT !.chunks = Append([S.chunks EXCEPT ![p].next = ptr],
                                                  ChunkNew(elem)),
                                !.last[l] = ptr]
    ELSE LET ptr == Len(S.chunks) + 1
         IN  [S EXCEPT !.chunks = Append(S.chunks, ChunkNew(elem)),
                       !.last[l] = ptr,
                       !.head[l] = ptr]

\* push that also moves head when it starts a chunk after a full tail.
push_reheads(S, l, elem) ==
    IF S.last[l] # None
    THEN LET p   == S.last[l]
             len == S.chunks[p].len
         IN  IF len < CHUNK_CAPACITY
             THEN [S EXCEPT !.chunks[p].buffer[len] = elem,
                            !.chunks[p].len = len + 1]
             ELSE LET ptr == Len(S.chunks) + 1
                  IN  [S EXCEPT !.chunks = Append([S.chunks EXCEPT ![p].next = ptr],
                                                  ChunkNew(elem)),
                                !.last[l] = ptr,
                                !.head[l] = ptr]
    ELSE LET ptr == Len(S.chunks) + 1
         IN  [S EXCEPT !.chunks = Append(S.chunks, ChunkNew(elem)),
                       !.last[l] = ptr,
                       !.head[l] = ptr]

push(S, l, elem) ==
    IF S.last[l] # None
    THEN LET p   == S.last[l]
             len == S.chunks[p].len
         IN  IF len < CHUNK_CAPACITY
             THEN [S EXCEPT !.chunks[p].buffer[len] = elem,
                            !.chunks[p].len = len + 1]
             ELSE LET ptr == Len(S.chunks) + 1
                  IN  [S EXCEPT !.chunks = Append([S.chunks EXCEPT ![p].next = ptr],
                                                  ChunkNew(elem)),
                                !.last[l] = ptr]
    ELSE LET ptr == Len(S.chunks) + 1
         IN  [S EXCEPT !.chunks = Append(S.chunks, ChunkNew(elem)),
                       !.last[l] = ptr,
                       !.head[l] = ptr]

\* Extend::extend: for_each push, over the elements first+1 .. first+n.
RECURSIVE extend(_, _, _, _)
extend(S, l, first, n) ==
    IF n = 0 THEN S
    ELSE push(extend(S, l, first, n - 1), l, first + n)

\* ----------------------------------------------------------------- iter
\* The closure state of iter(): (chunk, idx), or None once exhausted.
IterStart(hd) == [chunk |-> hd, idx |-> 0]

\* A closure that leaves a chunk one slot late (idx > len for idx >= len).
IterNext_pastLen(ch, state) ==
    LET chunk == ch[state.chunk]
        ret   == chunk.buffer[state.idx]
        idx   == state.idx + 1
    IN  [ ret   |-> ret,
          state |-> IF idx > chunk.len
                    THEN [chunk |-> chunk.next, idx |-> 0]
                    ELSE [chunk |-> state.chunk, idx |-> idx] ]

\* One call of the from_fn closure on a non-exhausted state.
IterNext(ch, state) ==
    LET chunk == ch[state.chunk]
        ret   == chunk.buffer[state.idx]
        idx   == state.idx + 1
    IN  [ ret   |-> ret,
          state |-> IF idx >= chunk.len
                    THEN [chunk |-> chunk.next, idx |-> 0]
                    ELSE [chunk |-> state.chunk, idx |-> idx] ]

\* Collecting the iterator: call the closure until it returns None.
RECURSIVE IterCollect(_, _, _)
IterCollect(ch, state, fuel) ==
    IF state.chunk = None \/ fuel = 0 THEN << >>
    ELSE LET r == IterNext(ch, state)
         IN  << r.ret >> \o IterCollect(ch, r.state, fuel - 1)

IterAll(ch, hd) == IterCollect(ch, IterStart(hd), MaxElems + 1)

\* The next chain from hd, as the sequence of chunks visited (at most fuel).
RECURSIVE ChainFrom(_, _, _)
ChainFrom(ch, hd, fuel) ==
    IF hd = None \/ fuel = 0 THEN << >>
    ELSE << hd >> \o ChainFrom(ch, ch[hd].next, fuel - 1)

Chain(ch, hd) == ChainFrom(ch, hd, MaxElems + 1)

\* ------------------------------------------------------------- helpers
Idle == [active |-> FALSE, list |-> 0, cursor |-> None]

\* No traversal is alive: no list is borrowed.
NoIter == [list |-> 0, its |-> EmptyBag]

\* iter() borrows the list for as long as the iterator lives.
Borrowed == iters.list # 0

\* Lists are built and spliced while their scope is open; leaving the scope
\* tears down the lists still alive, one after the other.  Teardown touches
\* only the chain of the list torn down, so running all teardowns last loses
\* no behaviour of the lists that are kept.
\* No list is pushed to, appended or torn down while a traversal borrows one.
Running == ~aborted /\ ~drop.active /\ ~exiting /\ ~Borrowed

\* A handle names no list before it is bound, once its list was moved into
\* append, and once its list was torn down.  A new list takes the first
\* vacant handle.
Fresh(l) == /\ status[l] = "vacant"
            /\ \A k \in ListIds : k < l => status[k] # "vacant"

Bind(f, l, v) == [f EXCEPT ![l] = v]

\* The handle l goes out of existence: its fields are no longer storage.
Vacate(S, l) == [S EXCEPT !.head[l] = None, !.last[l] = None]

Install(S) == /\ chunks' = S.chunks
              /\ head' = S.head
              /\ last' = S.last
              /\ released' = released \o [i \in 1 .. Len(S.chunks) - Len(chunks) |-> 0]

\* LeakChecker::alloc for n elements: next_free advances, the slots are live.
Alloc(n) == /\ next_free' = next_free + n
            /\ drops' = drops \o [i \in 1 .. n |-> 0]

\* tail: for append, the receiver's tail when it was called.
Op(name, self, other, panic) ==
    [name |-> name, self |-> self, other |-> other, panic |-> panic,
     tail |-> None]

\* ---------------------------------------------------------------- Init
Init ==
    /\ CHUNK_CAPACITY \in 0 .. MaxCap
    /\ debug_assertions \in BOOLEAN
    /\ chunks = << >>
    /\ released = << >>
    /\ head = [l \in ListIds |-> None]
    /\ last = [l \in ListIds |-> None]
    /\ status = [l \in ListIds |-> "vacant"]
    /\ drop = Idle
    /\ next_free = 0
    /\ drops = << >>
    /\ hist = [l \in ListIds |-> << >>]
    /\ inserted = [l \in ListIds |-> 0]
    /\ spliced = [l \in ListIds |-> FALSE]
    /\ joints = {}
    /\ op = Op("init", 0, 0, FALSE)
    /\ exiting = FALSE
    /\ panicking = FALSE
    /\ aborted = FALSE
    /\ iters = NoIter

\* ------------------------------------------------------------- List::new
\* A constructor without the capacity assertion.
New_unchecked(l) ==
    /\ Running
    /\ Fresh(l)
    /\ op' = Op("new", l, 0, FALSE)
    /\ status' = Bind(status, l, "alive")
    /\ head' = Bind(head, l, None)
    /\ last' = Bind(last, l, None)
    /\ UNCHANGED << CHUNK_CAPACITY, debug_assertions, iters, chunks, released,
                    drop, next_free, drops, hist, inserted, spliced, joints,
                    exiting, panicking, aborted >>

\* assert_ne!(CHUNK_CAPACITY, 0) panics before any list exists.
New(l) ==
    /\ Running
    /\ Fresh(l)
    /\ IF CHUNK_CAPACITY = 0
       THEN /\ op' = Op("new", l, 0, TRUE)
            /\ exiting' = TRUE
            /\ panicking' = TRUE
            /\ UNCHANGED << head, last, status >>
       ELSE /\ op' = Op("new", l, 0, FALSE)
            /\ status' = Bind(status, l, "alive")
            /\ head' = Bind(head, l, None)
            /\ last' = Bind(last, l, None)
            /\ UNCHANGED << exiting, panicking >>
    /\ UNCHANGED << CHUNK_CAPACITY, debug_assertions, iters, chunks, released,
                    drop, next_free, drops, hist, inserted, spliced, joints,
                    aborted >>

\* ------------------------------------------------------------ List::push
Push(l) ==
    /\ Running
    /\ status[l] = "alive"
    /\ next_free < MaxElems
    /\ Install(push(Store, l, next_free + 1))
    /\ Alloc(1)
    /\ hist' = [hist EXCEPT ![l] = Append(@, next_free + 1)]
    /\ inserted' = [inserted EXCEPT ![l] = @ + 1]
    /\ op' = Op("push", l, 0, FALSE)
    /\ UNCHANGED << CHUNK_CAPACITY, debug_assertions, iters, status, drop, spliced,
                    joints, exiting, panicking, aborted >>

\* A push that links the old tail to the chunk it is about to allocate.
pushAllocFailed_linkedFirst(S, l) ==
    IF S.last[l] # None
    THEN [S EXCEPT !.chunks[S.last[l]].next = Len(S.chunks) + 1]
    ELSE [S EXCEPT !.head[l] = Len(S.chunks) + 1]

\* What push has written when Box::new fails inside Chunk::new: the chunk
\* is built (lines 97-99, 104-106) before any field is assigned (100-101,
\* 107-108), so nothing.
pushAllocFailed(S, l) == S

\* push when the allocation of the new chunk fails: Box::new reports it
\* through handle_alloc_error, which ends the process; no destructor runs.
PushAllocFail(l) ==
    /\ Running
    /\ status[l] = "alive"
    /\ next_free < MaxElems
    /\ NeedsChunk(Store, l)
    /\ Install(pushAllocFailed(Store, l))
    /\ Alloc(1)
    /\ aborted' = TRUE
    /\ op' = Op("push", l, 0, TRUE)
    /\ UNCHANGED << CHUNK_CAPACITY, debug_assertions, iters, status, drop, hist,
                    inserted, spliced, joints, exiting, panicking >>

\* -------------------------------------------------------- Extend::extend
Extend(l, n) ==
    /\ Running
    /\ status[l] = "alive"
    /\ next_free + n <= MaxElems
    /\ Install(extend(Store, l, next_free, n))
    /\ Alloc(n)
    /\ hist' = [hist EXCEPT ![l] = @ \o [i \in 1 .. n |-> next_free + i]]
    /\ inserted' = [inserted EXCEPT ![l] = @ + n]
    /\ op' = Op("push", l, 0, FALSE)
    /\ UNCHANGED << CHUNK_CAPACITY, debug_assertions, iters, status, drop, spliced,
                    joints, exiting, panicking, aborted >>

\* ------------------------------------------------ FromIterator::from_iter
\* Self::new() followed by extend.
FromIter(l, n) ==
    /\ Running
    /\ Fresh(l)
    /\ next_free + n <= MaxElems
    /\ IF CHUNK_CAPACITY = 0
       THEN /\ op' = Op("new", l, 0, TRUE)
            /\ exiting' = TRUE
            /\ panicking' = TRUE
            /\ UNCHANGED << chunks, released, head, last, status, next_free,
                            drops, hist, inserted >>
       ELSE /\ op' = Op(IF n = 0 THEN "new" ELSE "push", l, 0, FALSE)
            /\ status' = Bind(status, l, "alive")
            /\ Install(extend(Vacate(Store, l), l, next_free, n))
            /\ Alloc(n)
            /\ hist' = Bind(hist, l, [i \in 1 .. n |-> next_free + i])
            /\ inserted' = Bind(inserted, l, n)
            /\ UNCHANGED << exiting, panicking >>
    /\ UNCHANGED << CHUNK_CAPACITY, debug_assertions, iters, drop, spliced, joints,
                    aborted >>

\* ---------------------------------------------------------- List::append
\* append that links other's chain but forgets self.last = other.last.
append_tailKept(S, a, b) ==
    IF S.last[a] # None
    THEN [S EXCEPT !.chunks[S.last[a]].next = S.head[b]]
    ELSE [S EXCEPT !.head[a] = S.head[b],
                   !.last[a] = S.last[b]]

\* The pointer-level effect of append(self = a, other = b).
append(S, a, b) ==
    IF S.last[a] # None
    THEN [S EXCEPT !.chunks[S.last[a]].next = S.head[b],
                   !.last[a] = S.last[b]]
    ELSE [S EXCEPT !.head[a] = S.head[b],
                   !.last[a] = S.last[b]]

\* Whether one of append's debug_assert!s fails (checked in debug builds only).
appendAssertFails(S, a) ==
    /\ debug_assertions
    /\ IF S.last[a] # None
       THEN S.chunks[S.last[a]].next # None   \* prev_last_next.is_none()
       ELSE S.head[a] # None                  \* prev_self.head.is_none()

\* other is moved into append; in the first branch it is wrapped in
\* ManuallyDrop, in the second it replaces *self and prev_self is forgotten.
\* When the second branch's assertion fails, prev_self is still a live local
\* and unwinding runs its destructor.  A failed assertion unwinds the scope.
ListAppend(a, b) ==
    /\ Running
    /\ a # b
    /\ status[a] = "alive"
    /\ status[b] = "alive"
    /\ Install(Vacate(append(Store, a, b), b))
    /\ status' = Bind(status, b, "vacant")
    /\ op' = [Op("append", a, b, appendAssertFails(Store, a))
                 EXCEPT !.tail = last[a]]
    /\ exiting' = appendAssertFails(Store, a)
    /\ panicking' = appendAssertFails(Store, a)
    /\ drop' = IF last[a] = None /\ appendAssertFails(Store, a)
               THEN [active |-> TRUE, list |-> 0, cursor |-> head[a]]
               ELSE Idle
    /\ hist' = [hist EXCEPT ![a] = @ \o hist[b], ![b] = << >>]
    /\ inserted' = [inserted EXCEPT ![a] = @ + inserted[b], ![b] = 0]
    /\ spliced' = [spliced EXCEPT ![a] = TRUE, ![b] = FALSE]
    /\ joints' = IF last[a] # None /\ chunks[last[a]].len < CHUNK_CAPACITY
                 THEN joints \cup {last[a]}
                 ELSE joints
    /\ UNCHANGED << CHUNK_CAPACITY, debug_assertions, iters, next_free, drops,
                    aborted >>

\* ------------------------------------------------------------ Drop::drop
\* A teardown that never clears the tail.
dropBegin_keepsTail(S, l) == S

\* Lines 185-188: the tail is cleared in debug builds only; the cursor
\* starts at head.
dropBegin(S, l) ==
    IF debug_assertions THEN [S EXCEPT !.last[l] = None] ELSE S

DropBegin(l) ==
    /\ ~aborted
    /\ ~drop.active
    /\ ~Borrowed
    /\ status[l] = "alive"
    /\ \A k \in ListIds : k > l => status[k] # "alive"
    /\ Install(dropBegin(Store, l))
    /\ drop' = [active |-> TRUE, list |-> l, cursor |-> head[l]]
    /\ status' = [status EXCEPT ![l] = "dropping"]
    /\ exiting' = TRUE
    /\ op' = Op("drop", l, 0, FALSE)
    /\ UNCHANGED << CHUNK_CAPACITY, debug_assertions, iters, next_free, drops, hist,
                    inserted, spliced, joints, panicking, aborted >>

Min(S) == CHOOSE x \in S : \A y \in S : x <= y

\* ptr::drop_in_place::<[T]> on buffer[.. len], where the destructors of the
\* slots in F panic.  The slice is destroyed front to back; after a first
\* panic the remaining elements are still destroyed while unwinding, and a
\* second panic (or a first one when already unwinding) aborts the process.
dropInPlace(len, F, unwinding) ==
    IF F = {} THEN [destroyed |-> 0 .. len - 1, outcome |-> "ok"]
    ELSE IF unwinding
         THEN [destroyed |-> 0 .. Min(F), outcome |-> "abort"]
         ELSE IF Cardinality(F) >= 2
              THEN [destroyed |-> 0 .. Min(F \ {Min(F)}), outcome |-> "abort"]
              ELSE [destroyed |-> 0 .. len - 1, outcome |-> "unwind"]

\* Whether the loop body reaches drop(Box::from_raw(chunk)) (line 210):
\* only when drop_in_place (line 201) returned normally.
BoxReleased(outcome) == outcome = "ok"

\* The dropped List value is gone once its destructor returns or unwinds
\* (l = 0: the list was a local of append, never bound to a handle).
Retire(l) ==
    IF l \in ListIds
    THEN /\ status' = Bind(status, l, "vacant")
         /\ head' = Bind(head, l, None)
         /\ last' = Bind(last, l, None)
         /\ hist' = Bind(hist, l, << >>)
         /\ inserted' = Bind(inserted, l, 0)
         /\ spliced' = Bind(spliced, l, FALSE)
    ELSE UNCHANGED << status, head, last, hist, inserted, spliced >>

\* One iteration of the while loop (lines 189-212) on the chunk under the
\* cursor, with F the slots whose destructor panics.
DropChunk(F) ==
    /\ ~aborted
    /\ drop.active
    /\ drop.cursor # None
    /\ LET c     == drop.cursor
           chunk == chunks[c]
           r     == dropInPlace(chunk.len, F, panicking)
       IN  /\ F \subseteq 0 .. chunk.len - 1
           /\ drops' = [e \in DOMAIN drops |->
                          drops[e] + Cardinality({i \in r.destroyed :
                                                    chunk.buffer[i] = e})]
           /\ released' = IF BoxReleased(r.outcome)
                          THEN [released EXCEPT ![c] = @ + 1]
                          ELSE released
           /\ drop' = CASE r.outcome = "ok" -> [drop EXCEPT !.cursor = chunk.next]
                        [] r.outcome = "unwind" -> Idle
                        [] OTHER -> drop
           /\ IF r.outcome = "unwind"
              THEN Retire(drop.list)
              ELSE UNCHANGED << status, head, last, hist, inserted, spliced >>
           /\ aborted' = (r.outcome = "abort")
           /\ panicking' = (panicking \/ r.outcome # "ok")
           /\ op' = Op("drop_chunk", drop.list, c, r.outcome # "ok")
    /\ UNCHANGED << CHUNK_CAPACITY, debug_assertions, iters, chunks, next_free,
                    joints, exiting >>

\* The loop ends when the cursor is None.
DropEnd ==
    /\ ~aborted
    /\ drop.active
    /\ drop.cursor = None
    /\ drop' = Idle
    /\ Retire(drop.list)
    /\ op' = Op("drop_end", drop.list, 0, FALSE)
    /\ UNCHANGED << CHUNK_CAPACITY, debug_assertions, iters, chunks, released,
                    next_free, drops, joints, exiting, panicking, aborted >>

\* ------------------------------------------------------------ List::iter
\* The traversals of a list are closures of the same code over the same
\* list: they are told apart by their state only, so they form a bag.
One(t) == SetToBag({t})

\* iter() that hands out the cursor of a traversal already under way.
IterBegin_resumes(l) ==
    /\ ~aborted /\ ~drop.active /\ ~exiting
    /\ status[l] = "alive"
    /\ iters.list \in {0, l}
    /\ BagCardinality(iters.its) < MaxIters
    /\ iters' = [list |-> l,
                 its  |-> iters.its (+)
                          One([state |-> IF iters.its = EmptyBag
                                         THEN IterStart(head[l])
                                         ELSE (CHOOSE t \in BagToSet(iters.its) :
                                                 \A u \in BagToSet(iters.its) :
                                                    Len(u.out) <= Len(t.out)).state,
                               out   |-> << >>])]
    /\ op' = Op("iter", l, 0, FALSE)
    /\ UNCHANGED << CHUNK_CAPACITY, debug_assertions, chunks, released, head,
                    last, status, drop, next_free, drops, hist, inserted,
                    spliced, joints, exiting, panicking, aborted >>

\* iter(): one more traversal of list l, a new closure whose state starts at
\* (head, 0).  The traversals alive borrow the same list.
IterBegin(l) ==
    /\ ~aborted /\ ~drop.active /\ ~exiting
    /\ status[l] = "alive"
    /\ iters.list \in {0, l}
    /\ BagCardinality(iters.its) < MaxIters
    /\ iters' = [list |-> l,
                 its  |-> iters.its (+) One([state |-> IterStart(head[l]),
                                             out   |-> << >>])]
    /\ op' = Op("iter", l, 0, FALSE)
    /\ UNCHANGED << CHUNK_CAPACITY, debug_assertions, chunks, released, head,
                    last, status, drop, next_free, drops, hist, inserted,
                    spliced, joints, exiting, panicking, aborted >>

\* One call of next() on the traversal t that yields an element: the closure
\* reads the chunk and replaces its own state (moved into it, line 147).
IterStep(t) ==
    /\ ~aborted
    /\ BagIn(t, iters.its)
    /\ t.state.chunk # None
    /\ LET r == IterNext(chunks, t.state)
       IN  iters' = [iters EXCEPT !.its = (@ (-) One(t)) (+)
                                          One([state |-> r.state,
                                               out   |-> Append(t.out, r.ret)])]
    /\ UNCHANGED << CHUNK_CAPACITY, debug_assertions, chunks, released, head,
                    last, status, drop, next_free, drops, hist, inserted,
                    spliced, joints, op, exiting, panicking, aborted >>

\* ------------------------------------------------------------------ Next
\* The destructor of the leak checker's element (Ret::drop): it panics on a
\* double free, unless the thread is already panicking.  The slots of the
\* chunk under the cursor whose destructor panics:
RetFaults ==
    IF drop.active /\ drop.cursor # None /\ ~panicking
    THEN { i \in 0 .. chunks[drop.cursor].len - 1 :
             LET e == chunks[drop.cursor].buffer[i]
             IN  e \in DOMAIN drops /\ drops[e] >= 1 }
    ELSE {}

\* The operations that build lists, while their scope is open.
NextBuild ==
    \/ \E l \in ListIds : New(l)
    \/ \E l \in ListIds : Push(l)
    \/ \E l \in ListIds : PushAllocFail(l)
    \/ \E l \in ListIds, n \in 1 .. MaxExtend : Extend(l, n)
    \/ \E l \in ListIds, n \in 0 .. MaxExtend : FromIter(l, n)
    \/ \E a, b \in ListIds : ListAppend(a, b)

\* Building and teardown, the elements being those of the leak checker.
Next ==
    \/ NextBuild
    \/ \E l \in ListIds : DropBegin(l)
    \/ DropChunk(RetFaults)
    \/ DropEnd

\* Building and teardown for an element type whose destructor may panic.
NextFault ==
    \/ NextBuild
    \/ \E l \in ListIds : DropBegin(l)
    \/ \E F \in SUBSET (0 .. MaxCap - 1) : DropChunk(F)
    \/ DropEnd

\* Building, and traversals of the lists built.
NextIter ==
    \/ NextBuild
    \/ \E l \in ListIds : IterBegin(l)
    \/ \E t \in BagToSet(iters.its) : IterStep(t)

SpecBuild == Init /\ [][NextBuild]_vars

SpecIter == Init /\ [][NextIter]_vars

Spec == Init /\ [][Next]_vars

SpecFault == Init /\ [][NextFault]_vars

\* ================================================================ claims
Alive(l) == status[l] = "alive"

\* What a full iter() traversal of list l yields.
Iter(l) == IterAll(chunks, head[l])

\* The chunks of list l, in chain order.
ChunksOf(l) == Chain(chunks, head[l])

\* Every handle is vacant again and no teardown is under way: the scope of
\* the lists was left to the end, without the process being ended.
TornDown ==
    /\ exiting
    /\ ~drop.active
    /\ ~aborted
    /\ \A l \in ListIds : status[l] = "vacant"

\* C1: a list built by push / extend / from_iter alone (append was never
\* called on it) iterates exactly the elements pushed, in push order.
PushOrderPreserved ==
    \A l \in ListIds : (Alive(l) /\ ~spliced[l]) => Iter(l) = hist[l]

\* C1 witness: such a list spans several chunks and iterates all it was given.
PushOrderWitness ==
    \E l \in ListIds :
        /\ Alive(l) /\ ~spliced[l]
        /\ Len(ChunksOf(l)) >= 2
        /\ Len(hist[l]) >= 2
        /\ Iter(l) = hist[l]

\* C2: after A.append(B), iter(A) yields what A held before the call followed
\* by what B held, for every A and B.
AppendConcatenates ==
    [][ \A a, b \in ListIds :
          (op'.name = "append" /\ op'.self = a /\ op'.other = b)
          => IterAll(chunks', head'[a])
               = IterAll(chunks, head[a]) \o IterAll(chunks, head[b]) ]_vars

\* C3: once every list is torn down, every element ever inserted was
\* destroyed exactly once and every chunk released exactly once.
NoLeakNoDoubleFree ==
    /\ \A e \in DOMAIN drops : drops[e] <= 1
    /\ \A c \in DOMAIN released : released[c] <= 1
    /\ TornDown => /\ \A e \in DOMAIN drops : drops[e] = 1
                   /\ \A c \in DOMAIN released : released[c] = 1

\* C4: for a live list, head is empty iff tail is empty iff it holds no element.
HeadTailEmptyTogether ==
    \A l \in ListIds :
        Alive(l) => /\ (head[l] = None) <=> (last[l] = None)
                    /\ (last[l] = None) <=> (Iter(l) = << >>)

\* C5 as stated: every chunk of a live list other than its tail is full
\* (stated for the lists whose tail is present, where "the chunk referenced
\* by tail" exists).
NonTailChunksFull ==
    \A l \in ListIds :
        (Alive(l) /\ last[l] # None) => \A i \in DOMAIN ChunksOf(l) :
                       ChunksOf(l)[i] # last[l]
                       => chunks[ChunksOf(l)[i]].len = CHUNK_CAPACITY

\* C5 amended: every chunk of a live list other than its tail is full, unless
\* it was the tail of its list, not yet full, when append was called on that
\* list (append links after a partly filled tail and leaves it as it is).
NonTailChunksFullUnlessJoint ==
    \A l \in ListIds :
        Alive(l) => \A i \in DOMAIN ChunksOf(l) :
                       ChunksOf(l)[i] # last[l]
                       => \/ chunks[ChunksOf(l)[i]].len = CHUNK_CAPACITY
                          \/ ChunksOf(l)[i] \in joints

\* C5 witness: a live list whose tail is present holds, before its tail, a
\* partly filled chunk that append linked after.
NonTailJointWitness ==
    \E l \in ListIds :
        /\ Alive(l)
        /\ Len(ChunksOf(l)) >= 2
        /\ last[l] = ChunksOf(l)[Len(ChunksOf(l))]
        /\ chunks[head[l]].len < CHUNK_CAPACITY
        /\ head[l] \in joints

\* C6: for a live list holding elements, the next chain from head visits no
\* chunk twice and ends at the chunk tail refers to.
ChainEndsAtTail ==
    \A l \in ListIds :
        (Alive(l) /\ head[l] # None)
        => /\ Len(ChunksOf(l)) <= Len(chunks)
           /\ \A i, j \in DOMAIN ChunksOf(l) :
                 ChunksOf(l)[i] = ChunksOf(l)[j] => i = j
           /\ ChunksOf(l)[Len(ChunksOf(l))] = last[l]

\* C7: a full traversal of a live list yields as many elements as were pushed
\* into it plus those held by the lists appended to it.
IterCountsInserted ==
    \A l \in ListIds : Alive(l) => Len(Iter(l)) = inserted[l]

\* C8: when a teardown is ended by a panicking element destructor, the chunk
\* holding that element and every chunk after it were each released once.
FaultStillReleases ==
    (op.name = "drop_chunk" /\ op.panic /\ ~aborted)
    => \A i \in DOMAIN Chain(chunks, op.other) :
          released[Chain(chunks, op.other)[i]] = 1

TailNeverDangles ==
    \A l \in ListIds : last[l] # None => released[last[l]] = 0

\* C10 amended: in a build with debug assertions, a list under teardown has
\* an empty tail, and no tail ever refers to a released chunk.
TailClearedInDebugBuild ==
    debug_assertions
    => \A l \in ListIds :
          /\ status[l] = "dropping" => last[l] = None
          /\ last[l] # None => released[last[l]] = 0

\* C10 witness: a debug build's teardown has released the chunks of a list.
TailClearedWitness ==
    /\ debug_assertions
    /\ drop.active
    /\ drop.list \in ListIds
    /\ drop.cursor = None
    /\ \E c \in DOMAIN released : released[c] = 1

\* ------------------------------------------- operations on a given store
\* What a full iter() traversal of list l yields in the store S.
IterOf(S, l) ==
    IterCollect(S.chunks, IterStart(S.head[l]),
                Len(S.chunks) * CHUNK_CAPACITY + 1)

\* The chunks of list l in the store S, in chain order.
ChainOf(S, l) == ChainFrom(S.chunks, S.head[l], Len(S.chunks) + 1)

\* The live elements of the chunks of a chain, in order: buffer[.. len] of
\* each chunk.
RECURSIVE Flatten(_, _)
Flatten(ch, chain) ==
    IF chain = << >> THEN << >>
    ELSE [i \in 1 .. ch[Head(chain)].len |-> ch[Head(chain)].buffer[i - 1]]
         \o Flatten(ch, Tail(chain))

\* The elements list l holds in the store S.
Elements(S, l) == Flatten(S.chunks, ChainOf(S, l))

\* A temporary list: List::new() bound to no handle of the scope (handle 0).
Temp == 0

ListNew(S) == [S EXCEPT !.head = (Temp :> None) @@ S.head,
                        !.last = (Temp :> None) @@ S.last]

\* A.push(x), and A.append(L) for L a new list holding only x.
pushOne(S, a, x) == push(S, a, x)

appendOne(S, a, x) == append(push(ListNew(S), Temp, x), a, Temp)

\* A further call on list a: push an element, append a new empty list, append
\* a new list holding one element, or append the list b of the scope.
call(S, a, b, c, x) ==
    CASE c = "push"         -> push(S, a, x)
      [] c = "append_empty" -> append(ListNew(S), a, Temp)
      [] c = "append_one"   -> appendOne(S, a, x)
      [] c = "append_list"  -> Vacate(append(S, a, b), b)

\* The calls cs made in order on list a, on elements x + 1, x + 2, ...
RECURSIVE calls(_, _, _, _, _)
calls(S, a, b, cs, x) ==
    IF cs = << >> THEN S
    ELSE calls(call(S, a, b, Head(cs), x + 1), a, b, Tail(cs), x + 1)

\* The sequences of further calls: at most MaxFurther calls, the list b
\* being appended at most once (append consumes it).
Further(a) ==
    LET Kinds == {"push", "append_empty", "append_one"}
        Seqs(K) == UNION { [1 .. n -> K] : n \in 0 .. MaxFurther }
    IN  { << b, cs >> \in
            ({a} \X Seqs(Kinds))
            \cup ({ k \in ListIds : k # a /\ Alive(k) }
                  \X Seqs(Kinds \cup {"append_list"})) :
            Cardinality({ i \in DOMAIN cs : cs[i] = "append_list" }) <= 1 }

\* C11: for a live list A and an element x, A.append(L) with L holding only x
\* returns as A.push(x) does, both leave A iterating the same sequence, and so
\* do they after any same further calls of push and append.
AppendOneIsPush ==
    \A a \in ListIds :
        (Alive(a) /\ Running)
        => LET x == next_free + 1
           IN  /\ ~appendAssertFails(push(ListNew(Store), Temp, x), a)
               /\ \A f \in Further(a) :
                     IterOf(calls(pushOne(Store, a, x), a, f[1], f[2], x), a)
                       = IterOf(calls(appendOne(Store, a, x), a, f[1], f[2], x), a)

\* C12: a list built by push / extend / from_iter alone from N >= 1 elements
\* has ceil(N / C) chunks, all of C elements but the last, which holds the
\* rest; and so it has after any further extend.
ChunkCountExact ==
    \A l \in ListIds, k \in 0 .. MaxExtend :
        (Alive(l) /\ ~spliced[l] /\ Len(hist[l]) + k >= 1)
        => LET C  == CHUNK_CAPACITY
               N  == Len(hist[l]) + k
               S  == extend(Store, l, next_free, k)
               ch == ChainOf(S, l)
               q  == (N + C - 1) \div C
           IN  /\ Len(ch) = q
               /\ \A i \in 1 .. Len(ch) :
                     S.chunks[ch[i]].len = IF i < q THEN C ELSE N - C * (q - 1)

\* C12 witness: a list of capacity 2 built from 2 elements is one full chunk,
\* and one more element makes it a full chunk followed by a chunk of one.
ChunkCountWitness ==
    \E l \in ListIds :
        /\ Alive(l) /\ ~spliced[l]
        /\ CHUNK_CAPACITY = 2
        /\ Len(hist[l]) = 2
        /\ Len(ChainOf(Store, l)) = 1
        /\ LET S == extend(Store, l, next_free, 1)
           IN  /\ Len(ChainOf(S, l)) = 2
               /\ S.chunks[ChainOf(S, l)[2]].len = 1

\* C15: a capacity of zero is rejected by List::new, the first call there can
\* be: no list and no chunk exists with capacity zero, and no push (hence no
\* Chunk::new) ever runs with it.
ZeroCapacityRejected ==
    /\ (\E l \in ListIds : status[l] # "vacant") => CHUNK_CAPACITY # 0
    /\ chunks # << >> => CHUNK_CAPACITY # 0
    /\ op.name \in {"push", "append"} => CHUNK_CAPACITY # 0
    /\ (CHUNK_CAPACITY = 0 /\ op.name # "init")
       => (op.name = "new" /\ op.panic /\ panicking)

\* C15 witness: List::new was called with capacity zero and panicked.
ZeroCapacityWitness ==
    /\ CHUNK_CAPACITY = 0
    /\ op.name = "new"
    /\ op.panic
    /\ \A l \in ListIds : status[l] = "vacant"

\* C16: across push / extend / append no chunk's length decreases, no stored
\* element changes slot or value, a chunk that is full or is no list's tail
\* is not written, and a push on a full tail leaves head as it was.
StoredElementsStay ==
    [][ /\ \A c \in DOMAIN chunks :
              /\ chunks'[c].len >= chunks[c].len
              /\ \A i \in 0 .. chunks[c].len - 1 :
                    chunks'[c].buffer[i] = chunks[c].buffer[i]
              /\ (\/ chunks[c].len = CHUNK_CAPACITY
                  \/ \A l \in ListIds : last[l] # c)
                 => /\ chunks'[c].len = chunks[c].len
                    /\ chunks'[c].buffer = chunks[c].buffer
        /\ \A l \in ListIds :
              (/\ op'.name = "push" /\ op'.self = l
               /\ last[l] # None
               /\ chunks[last[l]].len = CHUNK_CAPACITY)
              => head'[l] = head[l] ]_vars

\* C16 witness: a push found the tail full and started a second chunk, the
\* first one keeping its element.
StoredElementsWitness ==
    /\ op.name = "push"
    /\ ~op.panic
    /\ head[op.self] # None
    /\ last[op.self] # None
    /\ head[op.self] # last[op.self]
    /\ chunks[head[op.self]].len = CHUNK_CAPACITY
    /\ chunks[head[op.self]].buffer[0] = hist[op.self][1]

\* C17: append on a receiver whose tail is present writes the next link of
\* that tail chunk (other's head) and the receiver's tail (other's tail) and
\* nothing else: head, lengths and elements stay, and nothing is torn down.
AppendWritesLinkAndTail ==
    [][ \A a, b \in ListIds :
          (/\ op'.name = "append" /\ op'.self = a /\ op'.other = b
           /\ last[a] # None)
          => /\ chunks' = [chunks EXCEPT ![last[a]].next = head[b]]
             /\ head'[a] = head[a]
             /\ last'[a] = last[b]
             /\ drops' = drops
             /\ released' = released
             /\ ~drop'.active ]_vars

\* C17 witness: append linked a chain that holds elements after the tail of
\* a receiver that holds elements.
AppendLinkWitness ==
    /\ op.name = "append"
    /\ op.tail # None
    /\ chunks[op.tail].next # None
    /\ head[op.self] # None
    /\ last[op.self] = chunks[op.tail].next

\* C18: whenever append finds the receiver's tail absent, the receiver's head
\* is absent too, so debug_assert!(prev_self.head.is_none()) holds and the
\* forgotten receiver owns no chunk.
AbsentTailMeansEmpty ==
    [][ \A a \in ListIds :
          (op'.name = "append" /\ op'.self = a /\ last[a] = None)
          => (head[a] = None /\ ~op'.panic) ]_vars

\* C19: a tail that is present is a chunk of the chain from head whose next
\* link is empty; so the link append replaces was empty, and no call of
\* push or append changes a link that was set.
TailIsChainEnd ==
    [][ /\ \A l \in ListIds :
              (status'[l] = "alive" /\ last'[l] # None)
              => /\ \E i \in DOMAIN ChainFrom(chunks', head'[l], Len(chunks') + 1) :
                       ChainFrom(chunks', head'[l], Len(chunks') + 1)[i] = last'[l]
                 /\ chunks'[last'[l]].next = None
        /\ \A a \in ListIds :
              (op'.name = "append" /\ op'.self = a /\ last[a] # None)
              => chunks[last[a]].next = None
        /\ \A c \in DOMAIN chunks :
              chunks[c].next # None => chunks'[c].next = chunks[c].next ]_vars

\* C19 witness: in a debug build append ran on a receiver whose tail was
\* present, its assertion held, and the new tail ends the chain.
TailIsChainEndWitness ==
    /\ debug_assertions
    /\ op.name = "append"
    /\ op.tail # None
    /\ ~op.panic
    /\ last[op.self] # None
    /\ last[op.self] # op.tail
    /\ chunks[last[op.self]].next = None

\* C13: with no mutation in between, every live traversal of a list has
\* yielded a prefix of the list's elements in order, and all of them once it
\* is exhausted, wherever the other traversals stand; and a step of a
\* traversal changes no chunk, head or tail.
TraversalsIndependent ==
    [][ /\ \A t \in BagToSet(iters'.its) :
              LET all == Elements([chunks |-> chunks', head |-> head',
                                   last |-> last'], iters'.list)
              IN  /\ Len(t.out) <= Len(all)
                  /\ t.out = SubSeq(all, 1, Len(t.out))
                  /\ (t.state.chunk = None) <=> (t.out = all)
        /\ iters' # iters
           => (chunks' = chunks /\ head' = head /\ last' = last) ]_vars

\* C13 witness: of two traversals of a list of several elements, one is
\* exhausted and has yielded them all while the other has yielded none.
TraversalsWitness ==
    /\ iters.list # 0
    /\ \E t, u \in BagToSet(iters.its) :
          /\ t.state.chunk = None
          /\ Len(t.out) >= 2
          /\ t.out = hist[iters.list]
          /\ u.out = << >>
          /\ u.state.chunk # None

\* C14: every chunk of a live list has 1 <= len <= CHUNK_CAPACITY with
\* exactly its first len slots written, and the slot a traversal is about to
\* read has an index below the length of its chunk; no traversal has yielded
\* an unwritten slot.
SlotsReadAreLive ==
    /\ \A l \in ListIds :
          Alive(l) => \A k \in DOMAIN ChainOf(Store, l) :
             LET chunk == chunks[ChainOf(Store, l)[k]]
             IN  /\ 1 <= chunk.len
                 /\ chunk.len <= CHUNK_CAPACITY
                 /\ \A i \in DOMAIN chunk.buffer :
                       (i < chunk.len) <=> (chunk.buffer[i] # Uninit)
    /\ \A t \in BagToSet(iters.its) :
          /\ t.state.chunk # None
             => /\ t.state.idx < chunks[t.state.chunk].len
                /\ t.state.idx < CHUNK_CAPACITY
          /\ \A i \in DOMAIN t.out : t.out[i] # Uninit

\* C14 witness: a traversal has finished a list whose last chunk has an
\* unwritten slot.
SlotsReadWitness ==
    /\ iters.list # 0
    /\ last[iters.list] # None
    /\ \E t \in BagToSet(iters.its) :
          /\ t.state.chunk = None
          /\ Len(t.out) >= 1
          /\ chunks[last[iters.list]].len < CHUNK_CAPACITY

====
